---- MODULE Spec2Model ----
(***************************************************************************)
(* gmail_cleanup: the background sync engine (utils.BackgroundSyncer), the *)
(* cache store (load_cache / save_cache), the deletion coordinator         *)
(* (delete_messages) and the two sync endpoints of app.py, as one state    *)
(* machine.  Threads are the request handlers of the web server and the    *)
(* BackgroundSyncer threads they spawn.  A step is the code between two    *)
(* blocking points (a remote call, a file open, a file write).  The cache  *)
(* file of a state is what a kill of the process in that state leaves.     *)
(*                                                                         *)
(* A cache record is written once from the remote message and never        *)
(* changed, so the cache is modelled by its key set.                       *)
(***************************************************************************)
EXTENDS Integers, Sequences, FiniteSets, TLC

\* ------------------------------------------------------------- bounds
\* Message ids of the mailbox are 1..NumIds.
NumIds == 3
\* BackgroundSyncer threads that start_sync may spawn in one behaviour.
MaxRuns == 2
\* utils.py:162 sets BATCH_SIZE = 100; the model scales it down.
BATCH_SIZE == 1
\* utils.py:192 checkpoints when i % 500 == 0, i.e. every 500 / BATCH_SIZE = 5
\* batches; the model scales the number of batches per checkpoint down.
CKPT_BATCHES == 3
\* utils.py:102 asks for pages of at most 500 ids; scaled down.
PAGE_SIZE == 2
\* utils.py:372 sets batch_size = 1000 in delete_messages; scaled down.
DEL_BATCH_SIZE == 1
\* Longest id list handed to delete_messages.
MaxDelLen == 2
\* Records in the cache that fetch_email_stats aggregates.
MaxRecords == 3
\* Messages of the mailbox in the long-run specification.
LongIds == 6
\* Sender addresses of those records.
NumSenders == 2
\* Calendar days a before: filter may name, counted from 1970-01-01.
MaxDay == 1
\* Milliseconds in a day (86400000 in time.mktime(...) * 1000); scaled down.
DAY_MS == 2

\* ------------------------------------------------- program constants
\* BackgroundSyncer.__init__(credentials, max_results=50000); start_sync
\* passes no max_results.
max_results == 50000

Ids == 1..NumIds
Runs == 1..MaxRuns
\* The writers of the cache file: the runs, and 0 for delete_messages.
DEL == 0
Writers == Runs \cup {DEL}

VARIABLES
    remote,         \* ids the remote mailbox lists (not in trash)
    cache_file,     \* [valid, keys]: email_cache.json on disk
    replaced,       \* while a save is under way: what load_cache gave before it
    wopen,          \* writers between open(CACHE_FILE, "w") and close
    clash,          \* writers whose open file another writer touched
    last_writer,    \* writer whose save produced the file as it stands, or -1
    SYNC_STATE,     \* the global progress dictionary
    current_syncer, \* app.current_syncer: 0 is None, else the latest run
    pc,             \* per run: where the thread is
    stop_event,     \* per run: self._stop_event
    output_cache,   \* per run: self.output_cache
    loaded,         \* per run: what load_cache() returned in __init__
    messages,       \* per run: ids listed so far
    page_token,     \* per run: 0 is None, else the cursor (last id returned)
    missing_ids,    \* per run
    idx,            \* per run: the loop variable i (offset of the next batch)
    new_items,      \* per run: the in-memory buffer
    hist,           \* per run: what the run did (for the properties)
    dpc,            \* delete_messages: where the handler is
    message_ids,    \* delete_messages: its argument
    didx,           \* delete_messages: offset of the next batch
    cleaned_ids,    \* delete_messages
    dcache,         \* delete_messages: the local `cache`
    dhist,          \* delete_messages: what the call did (for the properties)
    stats_cache,    \* fetch_email_stats: the records load_cache() returned
    query,          \* fetch_email_stats: its query argument
    stats_result    \* fetch_email_stats: what it returned

vars == <<remote, cache_file, replaced, wopen, clash, last_writer, SYNC_STATE,
          current_syncer, pc, stop_event, output_cache, loaded,
          messages, page_token, missing_ids, idx, new_items, hist,
          dpc, message_ids, didx, cleaned_ids, dcache, dhist,
          stats_cache, query, stats_result>>

svars == <<pc, stop_event, output_cache, loaded, messages, page_token,
           missing_ids, idx, new_items, hist>>
dvars == <<dpc, message_ids, didx, cleaned_ids, dcache, dhist>>
fvars == <<cache_file, replaced, wopen, clash, last_writer>>
qvars == <<stats_cache, query, stats_result>>

\* ------------------------------------------------------------ helpers
Min(a, b) == IF a < b THEN a ELSE b

Range(s) == {s[k] : k \in 1..Len(s)}

\* s[i : i + n] of Python: n elements from 0-based offset i, cut at the end.
Slice(s, i, n) == SubSeq(s, i + 1, Min(i + n, Len(s)))

\* The ids of set S in ascending order.
RECURSIVE Sorted(_)
Sorted(S) ==
    IF S = {} THEN <<>>
    ELSE LET m == CHOOSE x \in S : \A y \in S : x <= y
         IN <<m>> \o Sorted(S \ {m})

\* Sequences over S of length at most n.
SeqsUpTo(S, n) == UNION {[1..k -> S] : k \in 0..n}

\* ---------------------------------------------------------- cache store
\* (For C12: every load takes the `except` path.)
load_cache_failed == {}

\* load_cache: the parsed file, or {} when it is absent or does not parse.
load_cache == IF cache_file.valid THEN cache_file.keys ELSE {}

\* open(CACHE_FILE, "w") by writer w: the file is truncated at once.
OpenForWrite(w) ==
    /\ cache_file' = [valid |-> FALSE, keys |-> {}]
    /\ replaced' = IF wopen = {} THEN load_cache ELSE replaced
    /\ wopen' = wopen \cup {w}
    /\ clash' = (clash \ {w}) \cup wopen
    /\ last_writer' = -1

\* json.dump(cache, f) and close by writer w.  Alone on the file, w leaves its
\* mapping there.  When another writer had the file open at the same time the
\* bytes of the two interleave: the file holds w's mapping or does not parse.
DumpAndClose(w, content) ==
    /\ w \in wopen
    /\ \/ /\ cache_file' = [valid |-> TRUE, keys |-> content]
          /\ last_writer' = w
       \/ /\ w \in clash
          /\ cache_file' = [valid |-> FALSE, keys |-> {}]
          /\ last_writer' = -1
    /\ replaced' = IF wopen = {w} THEN {} ELSE replaced
    /\ wopen' = wopen \ {w}
    /\ clash' = (clash \ {w}) \cup (wopen \ {w})


\* --------------------------------------------------------------- Init
NoHist == [log |-> <<>>, fetched |-> {}, failed |-> {}, cancelled |-> FALSE,
           aborted |-> FALSE, outcome |-> "", wrote |-> FALSE,
           after_stop |-> 0]

NoDelHist == [outcomes |-> <<>>, before |-> {}, result |-> -1, removed |-> {}]

\* The process has just started: no run yet, SYNC_STATE as utils.py:16-22 sets
\* it.  The mailbox and the cache file are whatever earlier processes and other
\* mail clients left: any set of messages, any cached key set (a message cached
\* by an earlier sync may since have been removed remotely).
NoQuery == [before |-> [kind |-> "absent", day |-> 0], category |-> ""]

NoResult == [stats |-> <<>>, total_scanned |-> -1]

\* No sync run, no delete request.
InitProcess ==
    /\ replaced = {}
    /\ wopen = {}
    /\ clash = {}
    /\ last_writer = -1
    /\ SYNC_STATE = [is_running |-> FALSE, total_to_scan |-> 0,
                     scanned_count |-> 0, status |-> "Idle", errors |-> <<>>]
    /\ current_syncer = 0
    /\ pc = [r \in Runs |-> "none"]
    /\ stop_event = [r \in Runs |-> FALSE]
    /\ output_cache = [r \in Runs |-> {}]
    /\ loaded = [r \in Runs |-> {}]
    /\ messages = [r \in Runs |-> <<>>]
    /\ page_token = [r \in Runs |-> 0]
    /\ missing_ids = [r \in Runs |-> <<>>]
    /\ idx = [r \in Runs |-> 0]
    /\ new_items = [r \in Runs |-> {}]
    /\ hist = [r \in Runs |-> NoHist]
    /\ dpc = "idle"
    /\ message_ids = <<>>
    /\ didx = 0
    /\ cleaned_ids = <<>>
    /\ dcache = {}
    /\ dhist = NoDelHist

\* A mailbox of LongIds messages and an empty cache: a first sync, with
\* enough batches to pass two checkpoints.
InitLong ==
    /\ remote = 1..LongIds
    /\ cache_file = [valid |-> TRUE, keys |-> {}]
    /\ InitProcess
    /\ stats_cache = <<>>
    /\ query = NoQuery
    /\ stats_result = NoResult

Init ==
    /\ remote \in SUBSET Ids
    /\ \E c \in SUBSET Ids : cache_file = [valid |-> TRUE, keys |-> c]
    /\ InitProcess
    /\ stats_cache = <<>>
    /\ query = NoQuery
    /\ stats_result = NoResult

\* ------------------------------------------------------ app.py endpoints
\* No BackgroundSyncer thread is between its start() and its end.
Spaced == \A r \in Runs : pc[r] \in {"none", "done"}

\* BackgroundSyncer(creds) and start() into slot r: __init__ loads the cache
\* and creates the stop event; the thread has not run yet.  With `forget` the
\* other thread objects are dropped.
SpawnInto(r, forget) ==
    LET fresh(f, v, v0) ==
            [x \in Runs |-> IF x = r THEN v ELSE IF forget THEN v0 ELSE f[x]]
    IN /\ current_syncer' = r
       /\ pc' = fresh(pc, "spawned", "none")
       /\ output_cache' = fresh(output_cache, load_cache, {})
       /\ loaded' = fresh(loaded, load_cache, {})
       /\ stop_event' = fresh(stop_event, FALSE, FALSE)
       /\ messages' = fresh(messages, <<>>, <<>>)
       /\ page_token' = fresh(page_token, 0, 0)
       /\ missing_ids' = fresh(missing_ids, <<>>, <<>>)
       /\ idx' = fresh(idx, 0, 0)
       /\ new_items' = fresh(new_items, {}, {})
       /\ hist' = fresh(hist, NoHist, NoHist)
       /\ last_writer' = IF forget /\ last_writer \in Runs
                         THEN -1 ELSE last_writer
       /\ UNCHANGED <<qvars, remote, cache_file, replaced, wopen, clash, SYNC_STATE,
                       dvars>>

\* The same when, every earlier thread having ended, the earlier thread
\* objects are forgotten.
Spawn(r) == SpawnInto(r, Spaced)

\* The request is let through to the thread start (line 230).
StartAllowed == ~SYNC_STATE.is_running

\* POST /api/sync/start.  While SYNC_STATE["is_running"] is set the request is
\* answered "Already running" and changes nothing.  Otherwise a
\* BackgroundSyncer is constructed and started; its thread sets is_running
\* only when it gets to run.
start_sync ==
    LET free == {r \in Runs : Spaced \/ pc[r] = "none"} IN
    IF StartAllowed /\ free # {}
    THEN Spawn(CHOOSE x \in free : \A y \in free : x <= y)
    ELSE UNCHANGED vars

\* Line 242-243: the runs whose stop() a stop request made now would call.
StopTarget ==
    IF current_syncer # 0 /\ SYNC_STATE.is_running
    THEN {current_syncer} ELSE {}

\* POST /api/sync/start for a second run, after the first has ended; what
\* the first run did is kept on record.
start_sync_again ==
    /\ pc[1] = "done"
    /\ pc[2] = "none"
    /\ StartAllowed
    /\ SpawnInto(2, FALSE)

\* POST /api/sync/stop.
stop_sync ==
    /\ stop_event' = [r \in Runs |-> stop_event[r] \/ r \in StopTarget]
    /\ UNCHANGED <<qvars, remote, fvars, SYNC_STATE, current_syncer, pc,
                   output_cache, loaded, messages, page_token, missing_ids,
                   idx, new_items, hist, dvars>>

\* --------------------------------------------------- BackgroundSyncer.run
\* (For C17: the run never looks at the stop event.)
StopSeenNever(r) == FALSE

\* Lines 98, 122 and 164: self._stop_event.is_set().
StopSeen(r) == stop_event[r]

\* A remote call of run r returns: the call counts as made after the stop
\* when the stop event was set before it was issued.
Called(r, h) ==
    [h EXCEPT !.after_stop = IF stop_event[r] THEN @ + 1 ELSE @]

\* (For C10: the run ends without the `finally` clause.)
FinishNoFinally(r, status, h) ==
    /\ SYNC_STATE' = [SYNC_STATE EXCEPT !.status = status]
    /\ pc' = [pc EXCEPT ![r] = "done"]
    /\ hist' = [hist EXCEPT ![r] = [h EXCEPT !.outcome = status]]

\* Lines 123-124, 208 and 210-216: the run sets its last status and leaves
\* through `finally`.
Finish(r, status, h) ==
    /\ SYNC_STATE' = [SYNC_STATE EXCEPT !.status = status,
                                        !.is_running = FALSE]
    /\ pc' = [pc EXCEPT ![r] = "done"]
    /\ hist' = [hist EXCEPT ![r] = [h EXCEPT !.outcome = status]]

\* Lines 81-96: reset SYNC_STATE, build the remote client.  A failure to build
\* it is caught by the outer handler.
RunStart(r) ==
    /\ pc[r] = "spawned"
    /\ \/ /\ SYNC_STATE' = [is_running |-> TRUE, total_to_scan |-> 0,
                            scanned_count |-> 0,
                            status |-> "Listing messages...",
                            errors |-> <<>>]
          /\ pc' = [pc EXCEPT ![r] = "list"]
          /\ UNCHANGED hist
       \/ /\ SYNC_STATE' = [is_running |-> FALSE, total_to_scan |-> 0,
                            scanned_count |-> 0, status |-> "Error",
                            errors |-> <<>>]
          /\ pc' = [pc EXCEPT ![r] = "done"]
          /\ hist' = [hist EXCEPT ![r].aborted = TRUE, ![r].outcome = "Error"]
    /\ UNCHANGED <<qvars, remote, fvars, current_syncer, stop_event,
                   output_cache, loaded, messages, page_token, missing_ids,
                   idx, new_items, dvars>>

\* One page of users().messages().list: at most n ids after the cursor, and a
\* next-page token when more remain.
ListCall(token, n) ==
    LET rest == Sorted({m \in remote : m > token})
        page == SubSeq(rest, 1, Min(n, Len(rest)))
    IN [messages |-> page,
        nextPageToken |-> IF Len(rest) > Len(page) /\ Len(page) > 0
                          THEN page[Len(page)] ELSE 0]

\* Line 98: the loop test finds the stop event clear; the page request is
\* built and about to be issued.
ListGo(r) ==
    /\ pc[r] = "list"
    /\ ~StopSeen(r)
    /\ pc' = [pc EXCEPT ![r] = "listcall"]
    /\ UNCHANGED <<qvars, remote, fvars, SYNC_STATE, current_syncer, stop_event,
                   output_cache, loaded, messages, page_token, missing_ids,
                   idx, new_items, hist, dvars>>

\* Lines 100-120, the rest of one iteration of the listing loop.
ListPage(r) ==
    /\ pc[r] = "listcall"
    /\ \/ LET results == ListCall(page_token[r],
                                  Min(PAGE_SIZE, max_results - Len(messages[r])))
              all == messages[r] \o results.messages
          IN /\ messages' = [messages EXCEPT ![r] = all]
             /\ SYNC_STATE' = [SYNC_STATE EXCEPT !.total_to_scan = Len(all)]
             /\ page_token' = [page_token EXCEPT ![r] = results.nextPageToken]
             /\ pc' = [pc EXCEPT ![r] =
                        IF results.nextPageToken = 0 \/ Len(all) >= max_results
                        THEN "listed" ELSE "list"]
             /\ hist' = [hist EXCEPT ![r] = Called(r, @)]
       \/ /\ Finish(r, "Error", [Called(r, hist[r]) EXCEPT !.aborted = TRUE])
          /\ UNCHANGED <<messages, page_token>>
    /\ UNCHANGED <<qvars, remote, fvars, current_syncer, stop_event,
                   output_cache, loaded, missing_ids, idx, new_items, dvars>>

\* Line 98 finds the stop event set: the loop ends, and line 122 returns.
ListStopped(r) ==
    /\ pc[r] = "list"
    /\ StopSeen(r)
    /\ Finish(r, "Stopped by user", hist[r])
    /\ UNCHANGED <<qvars, remote, fvars, current_syncer, stop_event,
                   output_cache, loaded, messages, page_token, missing_ids,
                   idx, new_items, dvars>>

\* (For C4: every listed id is fetched again.)
MissingIdsAll(msgs, cache) == msgs

\* Lines 127-129.
MissingIds(msgs, cache) == SelectSeq(msgs, LAMBDA m : m \notin cache)

\* Lines 122-135 and 208, after the listing loop ended by `break`.
AfterListing(r) ==
    /\ pc[r] = "listed"
    /\ IF StopSeen(r)
       THEN /\ Finish(r, "Stopped by user", hist[r])
            /\ UNCHANGED <<missing_ids, idx, new_items>>
       ELSE LET miss == MissingIds(messages[r], output_cache[r]) IN
            /\ missing_ids' = [missing_ids EXCEPT ![r] = miss]
            /\ idx' = [idx EXCEPT ![r] = 0]
            /\ new_items' = [new_items EXCEPT ![r] = {}]
            /\ IF miss = <<>>
               THEN Finish(r, "Complete", hist[r])
               ELSE /\ SYNC_STATE' = [SYNC_STATE EXCEPT !.status = "Found"]
                    /\ pc' = [pc EXCEPT ![r] = "fetch"]
                    /\ UNCHANGED hist
    /\ UNCHANGED <<qvars, remote, fvars, current_syncer, stop_event,
                   output_cache, loaded, messages, page_token, dvars>>


\* (For C3: a save that leaves the buffer out.)
MergeBufferDropped(cache, buf) == cache

\* Lines 193 and 205, self.output_cache.update(new_items).
MergeBuffer(cache, buf) == cache \cup buf

\* Line 163, range(0, len(missing_ids), BATCH_SIZE): the offset after i,
\* whether the batch at i succeeded or raised.
NextOffset(i) == i + BATCH_SIZE

\* (For C9: the handler swallows the error.)
RecordErrorSwallowed(errors) == errors

\* Line 201, SYNC_STATE["errors"].append(str(e)).
RecordError(errors) == Append(errors, "batch")

\* Line 192: the checkpoint test on the offset i of the batch just executed.
CheckpointDue(i) == i % (CKPT_BATCHES * BATCH_SIZE) = 0

\* (For C18: the loop test never finds the range exhausted.)
LoopDoneNever(i, n) == FALSE

\* Line 163: range(0, len(missing_ids), BATCH_SIZE) is exhausted at offset i.
LoopDone(i, n) == i >= n

\* Lines 163-165: the loop has a batch left and finds the stop event clear;
\* the batch request is built and about to be executed.
FetchGo(r) ==
    /\ pc[r] = "fetch"
    /\ idx[r] < Len(missing_ids[r])
    /\ ~StopSeen(r)
    /\ pc' = [pc EXCEPT ![r] = "fetchcall"]
    /\ UNCHANGED <<qvars, remote, fvars, SYNC_STATE, current_syncer, stop_event,
                   output_cache, loaded, messages, page_token, missing_ids,
                   idx, new_items, hist, dvars>>

\* Lines 167-202, the rest of one iteration of the batch loop, up to the open()
\* of a checkpoint save.  batch.execute() either raises (no callback has stored
\* anything) or returns after batch_callback stored the ids in `got` and
\* skipped the ids whose own request failed.
FetchBatch(r) ==
    /\ pc[r] = "fetchcall"
    /\ LET i == idx[r]
           chunk_ids == Slice(missing_ids[r], i, BATCH_SIZE)
           h == [Called(r, hist[r]) EXCEPT !.log = @ \o chunk_ids]
       IN \/ \E got \in SUBSET Range(chunk_ids) :
               LET buf == new_items[r] \cup got
                   h2 == [h EXCEPT !.fetched = @ \cup got]
               IN /\ SYNC_STATE' = [SYNC_STATE EXCEPT
                                      !.scanned_count = @ + Len(chunk_ids),
                                      !.status = "Fetching details..."]
                  /\ IF CheckpointDue(i)
                     THEN /\ output_cache' = [output_cache EXCEPT ![r] = MergeBuffer(@, buf)]
                          /\ new_items' = [new_items EXCEPT ![r] = buf]
                          /\ OpenForWrite(r)
                          /\ pc' = [pc EXCEPT ![r] = "ckpt"]
                          /\ hist' = [hist EXCEPT ![r] = [h2 EXCEPT !.wrote = TRUE]]
                          /\ UNCHANGED idx
                     ELSE /\ new_items' = [new_items EXCEPT ![r] = buf]
                          /\ idx' = [idx EXCEPT ![r] = NextOffset(i)]
                          /\ pc' = [pc EXCEPT ![r] = "fetch"]
                          /\ hist' = [hist EXCEPT ![r] = h2]
                          /\ UNCHANGED <<output_cache, fvars>>
          \/ /\ SYNC_STATE' = [SYNC_STATE EXCEPT !.errors = RecordError(@)]
             /\ idx' = [idx EXCEPT ![r] = NextOffset(i)]
             /\ hist' = [hist EXCEPT ![r] =
                           [h EXCEPT !.failed = @ \cup Range(chunk_ids)]]
             /\ pc' = [pc EXCEPT ![r] = "fetch"]
             /\ UNCHANGED <<output_cache, new_items, fvars>>
    /\ UNCHANGED <<qvars, remote, current_syncer, stop_event, loaded,
                   messages, page_token, missing_ids, dvars>>

\* Lines 194-195: the checkpoint's json.dump and close, `new_items = {}`, and
\* on to the next batch.
CheckpointDump(r) ==
    /\ pc[r] = "ckpt"
    /\ DumpAndClose(r, output_cache[r])
    /\ new_items' = [new_items EXCEPT ![r] = {}]
    /\ idx' = [idx EXCEPT ![r] = NextOffset(@)]
    /\ pc' = [pc EXCEPT ![r] = "fetch"]
    /\ UNCHANGED <<qvars, remote, SYNC_STATE, current_syncer, stop_event,
                   output_cache, loaded, messages, page_token, missing_ids,
                   hist, dvars>>

\* The batch loop ends, by exhaustion or by the `break` of line 165, and lines
\* 205-206 merge the buffer and open the file for the final save.
FetchExit(r) ==
    /\ pc[r] = "fetch"
    /\ LoopDone(idx[r], Len(missing_ids[r])) \/ StopSeen(r)
    /\ output_cache' = [output_cache EXCEPT ![r] = MergeBuffer(@, new_items[r])]
    /\ OpenForWrite(r)
    /\ pc' = [pc EXCEPT ![r] = "final"]
    /\ hist' = [hist EXCEPT ![r].wrote = TRUE,
                            ![r].cancelled = idx[r] < Len(missing_ids[r])]
    /\ UNCHANGED <<qvars, remote, SYNC_STATE, current_syncer, stop_event,
                   loaded, messages, page_token, missing_ids, idx, new_items,
                   dvars>>

\* The status the run sets after the batch loop and its final save (line 208).
StatusAfterFetch(r) == "Complete"

\* Lines 206-216: the final save's json.dump and close, the status, `finally`.
FinalDump(r) ==
    /\ pc[r] = "final"
    /\ DumpAndClose(r, output_cache[r])
    /\ Finish(r, StatusAfterFetch(r), hist[r])
    /\ UNCHANGED <<qvars, remote, current_syncer, stop_event, output_cache,
                   loaded, messages, page_token, missing_ids, idx, new_items,
                   dvars>>

\* ------------------------------------------------------- delete_messages
\* POST /api/delete with a non-empty id list (an empty one returns at once),
\* of messages that are in the mailbox or in the cache file.
delete_start ==
    /\ dpc = "idle"
    /\ \E ids \in SeqsUpTo(remote \cup load_cache, MaxDelLen) \ {<<>>} :
          message_ids' = ids
    /\ dhist' = [NoDelHist EXCEPT !.before = load_cache]
    /\ dpc' = "batches"
    /\ UNCHANGED <<qvars, remote, fvars, SYNC_STATE, current_syncer, svars, didx,
                   cleaned_ids, dcache>>

\* Lines 377-384: cleaned_ids after a batch whose batchModify returned (ok) or
\* raised.
CleanedAfterAlways(cleaned, batch_ids, ok) == cleaned \o batch_ids

CleanedAfter(cleaned, batch_ids, ok) ==
    IF ok THEN cleaned \o batch_ids ELSE cleaned

\* Lines 375-384, one batch: batchModify adds TRASH to the batch's messages, so
\* the listing (includeSpamTrash False) no longer returns them, or it raises.
delete_batch ==
    /\ dpc = "batches"
    /\ didx < Len(message_ids)
    /\ LET batch_ids == Slice(message_ids, didx, DEL_BATCH_SIZE) IN
       \/ /\ remote' = remote \ Range(batch_ids)
          /\ cleaned_ids' = CleanedAfter(cleaned_ids, batch_ids, TRUE)
          /\ dhist' = [dhist EXCEPT !.outcomes = Append(@, TRUE)]
       \/ /\ cleaned_ids' = CleanedAfter(cleaned_ids, batch_ids, FALSE)
          /\ dhist' = [dhist EXCEPT !.outcomes = Append(@, FALSE)]
          /\ UNCHANGED remote
    /\ didx' = didx + DEL_BATCH_SIZE
    /\ UNCHANGED <<qvars, fvars, SYNC_STATE, current_syncer, svars, dpc,
                   message_ids, dcache>>

\* Line 394: the call returns n and its locals are gone.
Return(n) ==
    /\ dpc' = "idle"
    /\ message_ids' = <<>>
    /\ didx' = 0
    /\ cleaned_ids' = <<>>
    /\ dcache' = {}
    /\ dhist' = [NoDelHist EXCEPT !.result = n, !.removed = dhist.removed]

\* Lines 389-391: the loaded cache without the cleaned ids.
RemoveCleaned(cache, cleaned) == cache \ Range(cleaned)

\* Lines 387-391 and 394: after the last batch, return at once when nothing was
\* trashed, else load the cache and delete the cleaned ids from it.
delete_load ==
    /\ dpc = "batches"
    /\ didx >= Len(message_ids)
    /\ IF cleaned_ids = <<>>
       THEN Return(Len(cleaned_ids))
       ELSE /\ dpc' = "open"
            /\ dcache' = RemoveCleaned(load_cache, cleaned_ids)
            /\ dhist' = [dhist EXCEPT
                            !.removed = load_cache \cap Range(cleaned_ids)]
            /\ UNCHANGED <<message_ids, didx, cleaned_ids>>
    /\ UNCHANGED <<qvars, remote, fvars, SYNC_STATE, current_syncer, svars>>

\* Line 392, save_cache: open(CACHE_FILE, "w").
delete_open ==
    /\ dpc = "open"
    /\ OpenForWrite(DEL)
    /\ dpc' = "dump"
    /\ UNCHANGED <<qvars, remote, SYNC_STATE, current_syncer, svars,
                   message_ids, didx, cleaned_ids, dcache, dhist>>

\* Lines 392-394: json.dump and close, and the count returned.
delete_dump ==
    /\ dpc = "dump"
    /\ DumpAndClose(DEL, dcache)
    /\ Return(Len(cleaned_ids))
    /\ UNCHANGED <<qvars, remote, SYNC_STATE, current_syncer, svars>>

\* ----------------------------------------------------- fetch_email_stats
\* A cache record: sender address, internalDate in ms, label ids (lines
\* 155-160; the display name plays no part in grouping or filtering).
Senders == 1..NumSenders
LastDates == 0..(MaxDay * DAY_MS)
LabelSets == SUBSET {"CATEGORY_SOCIAL"}
Records == [email : Senders, last_date : LastDates, labels : LabelSets]

\* The query: its before: token (absent, a string strptime rejects, or a
\* calendar day) and its category: token ("" when absent).
BeforeTokens ==
    {[kind |-> "absent", day |-> 0], [kind |-> "malformed", day |-> 0]}
        \cup {[kind |-> "date", day |-> d] : d \in 0..MaxDay}
CategoryTokens == {"", "social", "Forums", "primary"}
Queries == [before : BeforeTokens, category : CategoryTokens]

\* Lines 296-301: time.mktime(strptime(date_str).timetuple()) * 1000, the ms
\* of local midnight of day d (with the process in UTC).
MidnightMs(d) == d * DAY_MS

\* Lines 289-303: before_ts is None unless the token parses.
BeforeTs(q) ==
    IF q.before.kind = "date"
    THEN [none |-> FALSE, ts |-> MidnightMs(q.before.day)]
    ELSE [none |-> TRUE, ts |-> 0]

\* Line 308: .upper() of the category token.
Upper(c) ==
    CASE c = "social" -> "SOCIAL"
      [] c = "Forums" -> "FORUMS"
      [] c = "primary" -> "PRIMARY"
      [] OTHER -> c

\* Lines 305-310: target_category, "" for None.
TargetCategory(q) ==
    IF q.category # ""
       /\ Upper(q.category) \in {"SOCIAL", "PROMOTIONS", "UPDATES", "FORUMS"}
    THEN CASE Upper(q.category) = "SOCIAL" -> "CATEGORY_SOCIAL"
           [] Upper(q.category) = "PROMOTIONS" -> "CATEGORY_PROMOTIONS"
           [] Upper(q.category) = "UPDATES" -> "CATEGORY_UPDATES"
           [] Upper(q.category) = "FORUMS" -> "CATEGORY_FORUMS"
    ELSE ""

\* Line 314, `if before_ts and ...`: None and 0.0 are both false.
Truthy(b) == ~b.none /\ b.ts # 0

\* Lines 313-321: the record is not skipped by a `continue`.
Survives(data, q) ==
    /\ ~(Truthy(BeforeTs(q)) /\ data.last_date >= BeforeTs(q).ts)
    /\ ~(TargetCategory(q) # "" /\ TargetCategory(q) \notin data.labels)

\* (For C22: a group's last_date is that of the record met last.)
AddToStatsLast(stats, mid, data) ==
    IF \E k \in 1..Len(stats) : stats[k].email = data.email
    THEN [k \in 1..Len(stats) |->
            IF stats[k].email = data.email
            THEN [email |-> data.email,
                  count |-> stats[k].count + 1,
                  ids |-> Append(stats[k].ids, mid),
                  last_date |-> data.last_date]
            ELSE stats[k]]
    ELSE Append(stats, [email |-> data.email, count |-> 1, ids |-> <<mid>>,
                        last_date |-> data.last_date])

\* Lines 330-334: the groups, in order of first appearance, after one more
\* record.
AddToStats(stats, mid, data) ==
    IF \E k \in 1..Len(stats) : stats[k].email = data.email
    THEN [k \in 1..Len(stats) |->
            IF stats[k].email = data.email
            THEN [email |-> data.email,
                  count |-> stats[k].count + 1,
                  ids |-> Append(stats[k].ids, mid),
                  last_date |-> IF stats[k].last_date >= data.last_date
                                THEN stats[k].last_date ELSE data.last_date]
            ELSE stats[k]]
    ELSE Append(stats, [email |-> data.email, count |-> 1, ids |-> <<mid>>,
                        last_date |-> IF 0 >= data.last_date
                                      THEN 0 ELSE data.last_date])

\* Lines 312-334: the loop over cache.items(), records k..Len(cache), with
\* the groups and total_scanned so far.
RECURSIVE Aggregate(_, _, _, _)
Aggregate(cache, q, k, acc) ==
    IF k > Len(cache) THEN acc
    ELSE Aggregate(cache, q, k + 1,
                   IF Survives(cache[k], q)
                   THEN [stats |-> AddToStats(acc.stats, k, cache[k]),
                         total_scanned |-> acc.total_scanned + 1]
                   ELSE acc)

\* (For C13: the groups are returned in order of first appearance.)
SortByCountSkipped(groups) == groups

\* Lines 337-341: sorted(..., key=count, reverse=True), which keeps groups of
\* equal count in their order.
RECURSIVE SortByCount(_)
SortByCount(groups) ==
    IF groups = <<>> THEN <<>>
    ELSE LET rest == SortByCount(SubSeq(groups, 1, Len(groups) - 1))
             g == groups[Len(groups)]
             ahead == SelectSeq(rest, LAMBDA x : x.count >= g.count)
             behind == SelectSeq(rest, LAMBDA x : x.count < g.count)
         IN ahead \o <<g>> \o behind

\* Lines 278-352 (the oldest_date string of meta is left out).
FetchEmailStats(cache, q) ==
    IF cache = <<>>
    THEN [stats |-> <<>>, total_scanned |-> 0]
    ELSE LET acc == Aggregate(cache, q, 1,
                              [stats |-> <<>>, total_scanned |-> 0])
         IN [stats |-> SortByCount(acc.stats),
             total_scanned |-> acc.total_scanned]

\* A statistics request is about to be served: the cache file holds any
\* records (the k-th record of the file has id k), the query is any.
InitStats ==
    /\ stats_cache \in SeqsUpTo(Records, MaxRecords)
    /\ query \in Queries
    /\ stats_result = NoResult
    /\ remote = {}
    /\ cache_file = [valid |-> TRUE, keys |-> 1..Len(stats_cache)]
    /\ InitProcess

\* GET /api/stats: fetch_email_stats(creds, query=query).
fetch_email_stats ==
    /\ stats_result = NoResult
    /\ stats_result' = FetchEmailStats(stats_cache, query)
    /\ UNCHANGED <<stats_cache, query, remote, fvars, SYNC_STATE,
                   current_syncer, svars, dvars>>

SpecStats == InitStats /\ [][fetch_email_stats]_vars

\* The sync engine: its two endpoints and its threads.
RunStep ==
    \/ \E r \in Runs : RunStart(r)
    \/ \E r \in Runs : ListGo(r)
    \/ \E r \in Runs : ListPage(r)
    \/ \E r \in Runs : ListStopped(r)
    \/ \E r \in Runs : AfterListing(r)
    \/ \E r \in Runs : FetchGo(r)
    \/ \E r \in Runs : FetchBatch(r)
    \/ \E r \in Runs : CheckpointDump(r)
    \/ \E r \in Runs : FetchExit(r)
    \/ \E r \in Runs : FinalDump(r)

DeleteStep ==
    \/ delete_start
    \/ delete_batch
    \/ delete_load
    \/ delete_open
    \/ delete_dump

\* The sync engine with start and stop requests at any time.
Next ==
    \/ start_sync
    \/ stop_sync
    \/ RunStep

Spec == Init /\ [][Next]_vars

\* The sync engine when a start request is made only after the earlier run has
\* ended, and nothing else writes the cache file (the single-writer discipline).
NextRun ==
    \/ Spaced /\ start_sync
    \/ stop_sync
    \/ RunStep

SpecRun == Init /\ [][NextRun]_vars

\* The steps of thread r.
ThreadStep(r) ==
    \/ RunStart(r)
    \/ ListGo(r)
    \/ ListPage(r)
    \/ ListStopped(r)
    \/ AfterListing(r)
    \/ FetchGo(r)
    \/ FetchBatch(r)
    \/ CheckpointDump(r)
    \/ FetchExit(r)
    \/ FinalDump(r)

\* The same, every thread being scheduled again and again and every remote
\* or file call it makes returning.
SpecRunFair == SpecRun /\ \A r \in Runs : WF_vars(ThreadStep(r))

\* The sync engine on a long mailbox.
SpecLong == InitLong /\ [][NextRun]_vars

\* Two sync runs, the second started after the first has ended.
NextTwice ==
    \/ pc[1] = "none" /\ start_sync
    \/ start_sync_again
    \/ stop_sync
    \/ RunStep

SpecTwice == Init /\ [][NextTwice]_vars

\* delete_messages alone.
SpecDelete == Init /\ [][DeleteStep]_vars

\* No delete request has returned yet.
FirstDelete == dhist.result = -1

\* One sync run at a time, and one delete request at any time of it.
NextShared ==
    \/ Spaced /\ start_sync
    \/ stop_sync
    \/ RunStep
    \/ FirstDelete /\ delete_start
    \/ delete_batch
    \/ delete_load
    \/ delete_open
    \/ delete_dump

SpecShared == Init /\ [][NextShared]_vars


\* ===================================================================
\* Properties
\* ===================================================================
\* Run r was spawned and has not reached a terminal state.
Active(r) == pc[r] \notin {"none", "done"}

\* Occurrences of x in sequence q.
Count(x, q) == Cardinality({k \in 1..Len(q) : q[k] = x})

\* Run r ended and its status is st.
Ended(r, st) == pc[r] = "done" /\ hist[r].outcome = st

\* C1: at most one sync run is active at any time: a start request made while
\* a spawned run has not reached a terminal state spawns no second run.
\* The code tests is_running, which the spawned thread sets only when it runs.
C1_AtMostOneActive == Cardinality({r \in Runs : Active(r)}) <= 1

\* C2: a run whose batch loop was left by the stop event, with a batch still
\* to start, ends with status "Stopped by user".
C2_StopInFetchEndsStopped ==
    \A r \in Runs :
        pc[r] = "done" /\ hist[r].cancelled
            => hist[r].outcome = "Stopped by user"

\* C3: once a run that was cancelled in its batch loop has ended, the cache
\* file holds every record the run fetched before it saw the stop event, the
\* checkpointed ones and the ones still in the buffer.
C3_CancelPersistsFetched ==
    \A r \in Runs :
        pc[r] = "done" /\ hist[r].cancelled
            => hist[r].fetched \subseteq load_cache

\* A cancelled run has ended with one record checkpointed before the stop and
\* another that was only in the buffer when the stop was seen.
C3_Witness ==
    \E r \in Runs :
        /\ pc[r] = "done" /\ hist[r].cancelled
        /\ new_items[r] # {}
        /\ hist[r].fetched \ new_items[r] # {}

\* C4: in a run that ended "Complete" without being cancelled, with N ids
\* listed of which K are keys of the cache it loaded, the detail fetches made
\* are N - K, one for each listed id that is not cached and none for a cached
\* (or an unlisted) id.
C4_Incremental ==
    \A r \in Runs :
        Ended(r, "Complete") /\ ~hist[r].cancelled
            => LET listed == Range(messages[r])
                   N == Cardinality(listed)
                   K == Cardinality(listed \cap loaded[r])
               IN /\ Len(hist[r].log) = N - K
                  /\ \A m \in Ids :
                        Count(m, hist[r].log) =
                            IF m \in listed \ loaded[r] THEN 1 ELSE 0

\* A complete run that listed a cached id and two ids to fetch.
C4_Witness ==
    \E r \in Runs :
        /\ Ended(r, "Complete") /\ ~hist[r].cancelled
        /\ Range(messages[r]) \cap loaded[r] # {}
        /\ Len(hist[r].log) >= 2

\* Batches of run r's loop that have completed, and batches in all.
BatchesDone(r) == idx[r] \div BATCH_SIZE
BatchesInAll(r) == (Len(missing_ids[r]) + BATCH_SIZE - 1) \div BATCH_SIZE

\* C5: if the run is killed after M of its B batches completed, 1 <= M < B,
\* having fetched some record, the cache file holds at least one record fetched
\* by this run and no record of a batch that has not started.  (The claim
\* also asks for the records of the completed checkpoint groups.)
C5_CheckpointDurable ==
    \A r \in Runs :
        /\ pc[r] = "fetch"
        /\ 1 <= BatchesDone(r) /\ BatchesDone(r) < BatchesInAll(r)
        /\ hist[r].fetched # {}
        => /\ load_cache \cap hist[r].fetched # {}
           /\ load_cache \cap
                Range(SubSeq(missing_ids[r], idx[r] + 1, Len(missing_ids[r])))
              = {}


\* Ids of the batches of delete_messages' argument that succeeded, and how
\* many ids those batches hold.
OkBatches == {k \in 1..Len(dhist.outcomes) : dhist.outcomes[k]}
BatchOf(k) == Slice(message_ids, (k - 1) * DEL_BATCH_SIZE, DEL_BATCH_SIZE)
OkIds == UNION {Range(BatchOf(k)) : k \in OkBatches}
FailedIds == UNION {Range(BatchOf(k)) : k \in (1..Len(dhist.outcomes)) \ OkBatches}
RECURSIVE SumLen(_)
SumLen(K) ==
    IF K = {} THEN 0
    ELSE LET k == CHOOSE x \in K : TRUE
         IN Len(BatchOf(k)) + SumLen(K \ {k})

\* C6: when delete_messages returns, the cache file is the file of before the
\* call without the ids of the successful batches; an id that is only in
\* failed batches is still cached if it was; and the value returned is the
\* number of ids in the successful batches.
C6_DeleteConsistent ==
    [][dpc # "idle" /\ dpc' = "idle"
        => /\ Len(dhist.outcomes) * DEL_BATCH_SIZE >= Len(message_ids)
           /\ load_cache' = dhist.before \ OkIds
           /\ (FailedIds \ OkIds) \cap dhist.before \subseteq load_cache'
           /\ dhist'.result = SumLen(OkBatches)]_vars

\* delete_messages is about to write the cache after a first batch that
\* succeeded and a second that failed, both ids cached.
C6_Witness ==
    /\ dpc = "dump"
    /\ dhist.outcomes = <<TRUE, FALSE>>
    /\ Range(message_ids) \subseteq dhist.before
    /\ Cardinality(Range(message_ids)) = 2


\* C7: after a run ended "Complete", every key of the cache file is an id the
\* run's listing returned.
C7_MirrorAccurate ==
    \A r \in Runs :
        Ended(r, "Complete") => load_cache \subseteq Range(messages[r])

\* The mapping writer w is saving.
Saving(w) == IF w = DEL THEN dcache ELSE output_cache[w]

\* delete_messages' next step is its load_cache() of line 388.
DeleteAboutToLoad ==
    dpc = "batches" /\ didx >= Len(message_ids) /\ cleaned_ids # <<>>

\* C8: a load_cache made while writer w is saving mapping m over content p
\* returns p or m.  Stated for the load delete_messages is about to make.
C8_LoadSeesOldOrNew ==
    \A w \in Writers :
        wopen = {w} /\ DeleteAboutToLoad
            => load_cache \in {replaced, Saving(w)}

\* C9: a batch whose fetch raises adds exactly one entry to errors and the
\* loop goes on to the next batch; its ids are fetched once in the run; when
\* the run has ended none of them is a key of the cache file.
C9_FailedBatchSkipped ==
    /\ [](\A r \in Runs : \A m \in hist[r].failed :
            /\ Count(m, hist[r].log) = 1
            /\ pc[r] = "done" => m \notin load_cache)
    /\ [][\A r \in Runs :
            hist'[r].failed \ hist[r].failed # {}
                => /\ Len(SYNC_STATE'.errors) = Len(SYNC_STATE.errors) + 1
                   /\ pc'[r] = "fetch"
                   /\ idx'[r] = idx[r] + BATCH_SIZE
                   /\ cache_file' = cache_file]_vars

\* A run has ended in which a batch failed and a later batch was fetched.
C9_Witness ==
    \E r \in Runs :
        /\ pc[r] = "done"
        /\ \E k1, k2 \in 1..Len(hist[r].log) :
              /\ k1 < k2
              /\ hist[r].log[k1] \in hist[r].failed
              /\ hist[r].log[k2] \in hist[r].fetched

\* C10: a run in which building the client or a listing call raised has ended
\* at once with status "Error", without a detail fetch and without a cache
\* write; and whenever a run ends, with "Complete", "Stopped by user" or
\* "Error", it leaves is_running false and its status in SYNC_STATE.
C10_AbortAndFinally ==
    /\ [](\A r \in Runs :
            hist[r].aborted
                => /\ Ended(r, "Error")
                   /\ ~hist[r].wrote
                   /\ hist[r].log = <<>>)
    /\ [][\A r \in Runs :
            pc[r] # "done" /\ pc'[r] = "done"
                => /\ ~SYNC_STATE'.is_running
                   /\ SYNC_STATE'.status = hist'[r].outcome
                   /\ hist'[r].outcome \in {"Complete", "Stopped by user", "Error"}
                   /\ hist'[r].aborted => /\ SYNC_STATE'.status = "Error"
                                          /\ cache_file' = cache_file]_vars

\* A run was aborted by a listing call that raised on its second page.
C10_Witness ==
    \E r \in Runs :
        /\ hist[r].aborted
        /\ messages[r] # <<>>
        /\ ~SYNC_STATE.is_running


\* C11: a stop request made while run r is active (spawned, not yet ended)
\* sets r's stop event: in every state, every active run is among the runs
\* whose stop() a stop request made in that state calls.
C11_StopNeverLost ==
    \A r \in Runs : Active(r) => r \in StopTarget


\* Run r ran to the end of its listing and of its batch loop, was not stopped,
\* and every detail fetch it made returned the record.
Clean(r) ==
    /\ Ended(r, "Complete")
    /\ ~hist[r].cancelled
    /\ hist[r].fetched = Range(missing_ids[r])

Answered == stats_result # NoResult

\* The groups returned.
Groups == stats_result.stats

\* Ids of the records the loop did not skip.
Survivors == {k \in 1..Len(stats_cache) : Survives(stats_cache[k], query)}

\* C13: the result has one entry per sender address among the surviving
\* records, no address twice, and the entries are in order of non-increasing
\* count.
C13_OnePerSenderSorted ==
    Answered
        => /\ {Groups[g].email : g \in 1..Len(Groups)}
                = {stats_cache[k].email : k \in Survivors}
           /\ \A g, h \in 1..Len(Groups) :
                 /\ g # h => Groups[g].email # Groups[h].email
                 /\ g < h => Groups[g].count >= Groups[h].count

\* The sender met first in the cache has fewer records than a sender met
\* later.
C13_Witness ==
    /\ Answered
    /\ Len(Groups) = 2
    /\ Groups[1].count > Groups[2].count
    /\ stats_cache[1].email = Groups[2].email

\* Ids of the records in the groups returned.
Kept == UNION {Range(Groups[g].ids) : g \in 1..Len(Groups)}

\* The cutoff of a before: filter that names a valid date.
HasCutoff == query.before.kind = "date"
Cutoff == MidnightMs(query.before.day)

\* C14: a record is in the result iff (no valid before: date is given or its
\* last_date is below the cutoff, whatever the cutoff, 0 included) and (no
\* recognised category is given or its labels hold that category's label).
C14_FilterPredicate ==
    Answered
        => \A k \in 1..Len(stats_cache) :
              k \in Kept
                <=> /\ HasCutoff => stats_cache[k].last_date < Cutoff
                    /\ TargetCategory(query) # ""
                          => TargetCategory(query) \in stats_cache[k].labels


\* Run r is in its detail-fetch phase.
InFetchPhase(r) == pc[r] \in {"fetch", "fetchcall", "ckpt", "final"}

\* Batch k (from 0) of run r's missing ids.
BatchIds(r, k) == Range(Slice(missing_ids[r], k * BATCH_SIZE, BATCH_SIZE))

\* Batches of run r whose execute() raised, and ids whose own request failed
\* inside a batch that returned.
RaisedBatches(r) ==
    {k \in 0..Len(missing_ids[r]) :
        BatchIds(r, k) # {} /\ BatchIds(r, k) \subseteq hist[r].failed}
SilentIds(r) == Range(hist[r].log) \ (hist[r].fetched \cup hist[r].failed)

\* C15: every remote failure of the detail-fetch phase, of a whole batch or of
\* one id of a batch that returned, has its entry in SYNC_STATE.errors.
C15_EveryFailureRecorded ==
    \A r \in Runs :
        InFetchPhase(r)
            => Len(SYNC_STATE.errors)
                 >= Cardinality(RaisedBatches(r)) + Cardinality(SilentIds(r))

\* Batches of run r with a record that is in the buffer and not in the cache
\* file.
BufferedBatches(r) ==
    {k \in 0..Len(missing_ids[r]) :
        BatchIds(r, k) \cap (new_items[r] \ load_cache) # {}}

\* C16: between two batches of the detail-fetch phase, the records that are
\* only in the buffer come from at most one checkpoint interval of batches.
C16_BufferBounded ==
    \A r \in Runs :
        pc[r] \in {"fetch", "fetchcall"}
            => Cardinality(BufferedBatches(r)) <= CKPT_BATCHES

\* C17: a run that finds the stop event set at a check of its listing phase
\* ends there with status "Stopped by user" and without touching the cache
\* file; a run that ended so made no detail fetch and no cache write, and
\* the cache file is as the run loaded it.
C17_StopInListing ==
    /\ [](\A r \in Runs :
            Ended(r, "Stopped by user")
                => /\ hist[r].log = <<>>
                   /\ ~hist[r].wrote
                   /\ load_cache = loaded[r])
    /\ [][\A r \in Runs :
            pc[r] \in {"list", "listed"} /\ stop_event[r] /\ pc'[r] # pc[r]
                => /\ pc'[r] = "done"
                   /\ SYNC_STATE'.status = "Stopped by user"
                   /\ hist'[r].outcome = "Stopped by user"
                   /\ cache_file' = cache_file]_vars

\* A run was stopped after a first page of its listing, with uncached ids
\* listed.
C17_Witness ==
    \E r \in Runs :
        /\ Ended(r, "Stopped by user")
        /\ messages[r] # <<>>
        /\ Range(messages[r]) \ loaded[r] # {}
        /\ page_token[r] # 0

\* C18: every run that was started reaches a terminal state, and is_running
\* is false there.
C18_Terminates ==
    \A r \in Runs :
        (pc[r] = "spawned") ~> (pc[r] = "done" /\ ~SYNC_STATE.is_running)

\* A run that was never stopped has listed the whole mailbox, fetched and
\* ended.
C18_Witness ==
    \E r \in Runs :
        /\ pc[r] = "done"
        /\ ~stop_event[r]
        /\ Len(messages[r]) = NumIds
        /\ hist[r].wrote

\* C19: a run makes at most one remote call after its stop event was set,
\* and a run whose stop event is set ends.
C19_Cooperative ==
    /\ [](\A r \in Runs : hist[r].after_stop <= 1)
    /\ \A r \in Runs : (Active(r) /\ stop_event[r]) ~> (pc[r] = "done")

\* A run has ended after a detail batch that it executed with the stop event
\* already set.
C19_Witness ==
    \E r \in Runs :
        /\ pc[r] = "done"
        /\ hist[r].after_stop = 1
        /\ hist[r].cancelled

\* C20: in the detail-fetch phase scanned_count is the number of ids whose
\* record this run has fetched, at most the number of missing ids, itself at
\* most total_to_scan.
C20_ScannedCount ==
    \A r \in Runs :
        InFetchPhase(r)
            => /\ SYNC_STATE.scanned_count = Cardinality(hist[r].fetched)
               /\ SYNC_STATE.scanned_count <= Len(missing_ids[r])
               /\ Len(missing_ids[r]) <= SYNC_STATE.total_to_scan


\* C21: once delete_messages has returned, no id it trashed and took out of
\* the cache file is a key of the cache file again, whatever sync run saves
\* the cache afterwards.
C21_DeleteNotUndone ==
    dpc = "idle" => dhist.removed \cap load_cache = {}

\* Sum of the counts of groups g..Len(groups).
RECURSIVE SumCounts(_, _)
SumCounts(groups, g) ==
    IF g > Len(groups) THEN 0 ELSE groups[g].count + SumCounts(groups, g + 1)

\* The largest of a non-empty set of numbers.
Max(S) == CHOOSE x \in S : \A y \in S : y <= x

\* C22: the ids of a group are, each once, the surviving records of the
\* group's sender, so that every surviving id is in exactly one group; a
\* group's count is the length of its ids and at least 1; the counts add up
\* to total_scanned; a group's last_date is the largest of its records.
C22_Partition ==
    Answered
        => /\ \A g \in 1..Len(Groups) :
                 LET own == {k \in Survivors :
                                stats_cache[k].email = Groups[g].email}
                 IN /\ Range(Groups[g].ids) = own
                    /\ Len(Groups[g].ids) = Cardinality(own)
                    /\ Groups[g].count = Len(Groups[g].ids)
                    /\ Groups[g].count >= 1
                    /\ Groups[g].last_date
                          = Max({stats_cache[k].last_date : k \in own})
           /\ \A k \in Survivors :
                 Cardinality({g \in 1..Len(Groups) :
                                 k \in Range(Groups[g].ids)}) = 1
           /\ \A k \in 1..Len(stats_cache) :
                 k \notin Survivors => k \notin Kept
           /\ SumCounts(Groups, 1) = stats_result.total_scanned

\* A sender with two surviving records of which the first is the later one,
\* and a record the filter dropped.
C22_Witness ==
    /\ Answered
    /\ \E g \in 1..Len(Groups) :
          /\ Groups[g].count = 2
          /\ stats_cache[Groups[g].ids[1]].last_date
                > stats_cache[Groups[g].ids[2]].last_date
    /\ Cardinality(Survivors) < Len(stats_cache)

====
